---- MODULE Spec2Model ----
(***************************************************************************)
(* DenseVectorProxy (blaze/math/proxy/DenseVectorProxy.h): the proxy       *)
(* backend that forwards the dense vector interface to the represented     *)
(* vector, with the isRestricted() check in front of some operations, and  *)
(* the free functions that forward to the proxy's members.                 *)
(*                                                                         *)
(* The represented vector (VT, reached by get()) is not part of this       *)
(* header: its operations, V_..., are modelled from the specification.     *)
(***************************************************************************)
EXTENDS Integers, Sequences, FiniteSets, TLC

\* ------------------------------------------------------------------ bounds
MaxSize   == 3      \* largest size a vector takes in the model
MaxVal    == 1      \* element values are 0..MaxVal
MaxScalar == 2      \* scalars passed to scale() are 0..MaxScalar
ScaleMaxVal == 6    \* element values of the scale() specification

MaxCap  == MaxSize
Values  == 0 .. MaxVal
Sizes   == 0 .. MaxSize
Scalars == 0 .. MaxScalar

\* the value of a default-constructed element, Type()
Default == 0

\* an element that was never initialized ("new vector elements may not
\* initialized"): it holds no definite value, every read of it may give another
Indeterminate == -1

Elems == Values \cup {Indeterminate}

SeqsOver(S, n) == [1 .. n -> S]

Min(a, b) == IF a < b THEN a ELSE b

\* ------------------------------------------------------------------ state
VARIABLES
    rep,         \* the represented vector: [elems, cap]
    restricted,  \* what the proxy's isRestricted() currently answers
    last,        \* the last call made through the proxy and how it ended
    flip         \* how the last gated call's outcome relates to the same call before it
                 \* ("off" where the specification does not follow it)

vars == <<rep, restricted, last, flip>>

\* every vector the model's bounds admit over the element values S
VectorsOver(S) ==
    UNION { { [elems |-> e, cap |-> c] : e \in SeqsOver(S, n), c \in n .. MaxCap }
            : n \in Sizes }

\* ------------------------------------------------------------------ outcomes
Ok               == "ok"
AccessRestricted == "std::invalid_argument: Invalid access to restricted element"
BadAlloc         == "std::bad_alloc"
OutOfRange       == "out of range"
NoFunction       == "no matching function"

Val(kind, v) == [kind |-> kind, val |-> v]
Void         == Val("void", 0)
NoResult     == Val("none", 0)

\* ------------------------------------------------------------------
\* The represented vector's own operations. Each gives the set of ways the
\* operation can end: [rep: the vector afterwards, fail: Ok or the failure
\* it raises, result: what it returns].
VRes(v, fail, result) == [rep |-> v, fail |-> fail, result |-> result]

V_size(v)     == { VRes(v, Ok, Val("size_t", Len(v.elems))) }
V_capacity(v) == { VRes(v, Ok, Val("size_t", v.cap)) }
\* the elements that are not the default value; an indeterminate element may
\* be counted or not
V_nonZeros(v) ==
    LET definite == { i \in 1 .. Len(v.elems) :
                        v.elems[i] \notin {Default, Indeterminate} }
        open     == { i \in 1 .. Len(v.elems) : v.elems[i] = Indeterminate }
    IN  { VRes(v, Ok, Val("size_t", Cardinality(definite) + k))
          : k \in 0 .. Cardinality(open) }

\* v[index]: a reference to element index (0-based). Out of range the vector
\* either raises its own failure or hands out a reference outside its elements.
V_subscript(v, index) ==
    IF index < Len(v.elems)
    THEN { VRes(v, Ok, Val("Reference", index)) }
    ELSE { VRes(v, OutOfRange, NoResult), VRes(v, Ok, Val("Reference", index)) }

V_data(v)   == { VRes(v, Ok, Val("Pointer", 0)) }
V_begin(v)  == { VRes(v, Ok, Val("Iterator", 0)) }
V_end(v)    == { VRes(v, Ok, Val("Iterator", Len(v.elems))) }
V_cbegin(v) == { VRes(v, Ok, Val("ConstIterator", 0)) }
V_cend(v)   == { VRes(v, Ok, Val("ConstIterator", Len(v.elems))) }

\* reset( v ): every element is set to the default value
V_reset(v) ==
    { VRes([v EXCEPT !.elems = [i \in 1 .. Len(v.elems) |-> Default]], Ok, Void) }

\* clear( v ): the vector is emptied
V_clear(v) == { VRes([v EXCEPT !.elems = <<>>], Ok, Void) }

\* the elements a resize of v to n leaves: with preserve the elements valid
\* before and after keep their values, all others are not initialized
Resized(v, n, preserve) ==
    [i \in 1 .. n |-> IF preserve /\ i <= Len(v.elems) THEN v.elems[i]
                                                       ELSE Indeterminate]

\* v.resize( n, preserve ): within the capacity the storage is kept, beyond it
\* new storage of at least n elements is allocated, which may fail
V_resize(v, n, preserve) ==
    IF n <= v.cap
    THEN { VRes([elems |-> Resized(v, n, preserve), cap |-> v.cap], Ok, Void) }
    ELSE { VRes([elems |-> Resized(v, n, preserve), cap |-> c], Ok, Void)
           : c \in n .. MaxCap }
         \cup { VRes(v, BadAlloc, NoResult) }

\* v.extend( n, preserve ): n additional elements
V_extend(v, n, preserve) == V_resize(v, Len(v.elems) + n, preserve)

\* v.reserve( n ): the capacity becomes at least n, the elements are kept
V_reserve(v, n) ==
    IF n <= v.cap
    THEN { VRes(v, Ok, Void) }
    ELSE { VRes([v EXCEPT !.cap = c], Ok, Void) : c \in n .. MaxCap }
         \cup { VRes(v, BadAlloc, NoResult) }

\* v.scale( scalar ): every element is multiplied by the scalar
Times(x, scalar) == IF x = Indeterminate THEN Indeterminate ELSE x * scalar

V_scale(v, scalar) ==
    { VRes([v EXCEPT !.elems = [i \in 1 .. Len(v.elems) |-> Times(v.elems[i], scalar)]],
           Ok, Void) }

\* an assignment through the reference v[index]: inside the elements it stores
\* x; inside the capacity it writes a slot that holds no element; beyond the
\* storage it writes memory the vector does not own, which may leave the
\* vector as it is or its elements holding anything
V_store(v, index, x) ==
    IF index < Len(v.elems) THEN { [v EXCEPT !.elems[index + 1] = x] }
    ELSE IF index < v.cap THEN { v }
    ELSE { v, [v EXCEPT !.elems = [i \in 1 .. Len(v.elems) |-> Indeterminate]] }

\* ------------------------------------------------------------------
\* The proxy, as its members see it through (~*this): get() is the represented
\* vector, isRestricted() the restriction predicate of the concrete proxy.
Proxy(v, r) == [get |-> v, isRestricted |-> r]

\* How a member call ends: [rep: the represented vector afterwards, outcome: Ok
\* or the exception that leaves the call, result: the value returned, calls:
\* the calls the member made on (~*this) and on the vector, in order].
Forward(calls, outs) ==
    { [rep |-> o.rep, outcome |-> o.fail, result |-> o.result, calls |-> calls]
      : o \in outs }

\* throw std::invalid_argument( "Invalid access to restricted element" )
Throw(proxy) ==
    { [rep |-> proxy.get, outcome |-> AccessRestricted, result |-> NoResult,
       calls |-> <<"isRestricted">>] }

\* ---- data access functions
\* operator[] forwarding the first index whatever the argument
subscript_first(proxy, index) ==
    IF proxy.isRestricted THEN Throw(proxy)
    ELSE Forward(<<"isRestricted", "get", "operator[]">>, V_subscript(proxy.get, 0))

subscript(proxy, index) ==
    IF proxy.isRestricted THEN Throw(proxy)
    ELSE Forward(<<"isRestricted", "get", "operator[]">>, V_subscript(proxy.get, index))

\* data() with the restriction check after the access
data_late(proxy) ==
    IF proxy.isRestricted
    THEN { [rep |-> proxy.get, outcome |-> AccessRestricted, result |-> NoResult,
            calls |-> <<"get", "data", "isRestricted">>] }
    ELSE Forward(<<"get", "data", "isRestricted">>, V_data(proxy.get))

data(proxy) ==
    IF proxy.isRestricted THEN Throw(proxy)
    ELSE Forward(<<"isRestricted", "get", "data">>, V_data(proxy.get))

begin(proxy) ==
    IF proxy.isRestricted THEN Throw(proxy)
    ELSE Forward(<<"isRestricted", "get", "begin">>, V_begin(proxy.get))

cbegin(proxy) == Forward(<<"get", "cbegin">>, V_cbegin(proxy.get))

end(proxy) ==
    IF proxy.isRestricted THEN Throw(proxy)
    ELSE Forward(<<"isRestricted", "get", "end">>, V_end(proxy.get))

\* cend() found by way of clear(): the end of the emptied vector
cend_clearing(proxy) ==
    UNION { Forward(<<"get", "cend">>, V_cend(c.rep)) : c \in V_clear(proxy.get) }

cend(proxy) == Forward(<<"get", "cend">>, V_cend(proxy.get))

\* ---- utility functions
\* size() forwarding to the wrong query
size_as_capacity(proxy) == Forward(<<"get", "size">>, V_capacity(proxy.get))

size(proxy) == Forward(<<"get", "size">>, V_size(proxy.get))

\* capacity() forwarding to the wrong query
capacity_as_nonZeros(proxy) == Forward(<<"get", "capacity">>, V_nonZeros(proxy.get))

capacity(proxy) == Forward(<<"get", "capacity">>, V_capacity(proxy.get))

\* nonZeros() forwarding to the wrong query
nonZeros_as_capacity(proxy) == Forward(<<"get", "nonZeros">>, V_capacity(proxy.get))

nonZeros(proxy) == Forward(<<"get", "nonZeros">>, V_nonZeros(proxy.get))

\* reset() with the restriction check the gated members have
reset_checked(proxy) ==
    IF proxy.isRestricted THEN Throw(proxy)
    ELSE Forward(<<"isRestricted", "get", "reset">>, V_reset(proxy.get))

reset(proxy) == Forward(<<"get", "reset">>, V_reset(proxy.get))

clear(proxy) == Forward(<<"get", "clear">>, V_clear(proxy.get))

\* resize() dropping the preserve argument
resize_nopreserve(proxy, n, preserve) ==
    IF proxy.isRestricted THEN Throw(proxy)
    ELSE Forward(<<"isRestricted", "get", "resize">>, V_resize(proxy.get, n, FALSE))

resize(proxy, n, preserve) ==
    IF proxy.isRestricted THEN Throw(proxy)
    ELSE Forward(<<"isRestricted", "get", "resize">>, V_resize(proxy.get, n, preserve))

\* extend() with the restriction check left out
extend_unchecked(proxy, n, preserve) ==
    Forward(<<"get", "extend">>, V_extend(proxy.get, n, preserve))

\* extend() taking n for the new size
extend_as_resize(proxy, n, preserve) ==
    IF proxy.isRestricted THEN Throw(proxy)
    ELSE Forward(<<"isRestricted", "get", "extend">>, V_resize(proxy.get, n, preserve))

extend(proxy, n, preserve) ==
    IF proxy.isRestricted THEN Throw(proxy)
    ELSE Forward(<<"isRestricted", "get", "extend">>, V_extend(proxy.get, n, preserve))

\* reserve() turning the vector's failure into the access-restricted error
reserve_translating(proxy, n) ==
    IF proxy.isRestricted THEN Throw(proxy)
    ELSE { IF o.outcome = Ok THEN o ELSE [o EXCEPT !.outcome = AccessRestricted]
           : o \in Forward(<<"isRestricted", "get", "reserve">>,
                           V_reserve(proxy.get, n)) }

\* reserve() forwarding to resize()
reserve_as_resize(proxy, n) ==
    IF proxy.isRestricted THEN Throw(proxy)
    ELSE Forward(<<"isRestricted", "get", "reserve">>, V_resize(proxy.get, n, TRUE))

reserve(proxy, n) ==
    IF proxy.isRestricted THEN Throw(proxy)
    ELSE Forward(<<"isRestricted", "get", "reserve">>, V_reserve(proxy.get, n))

\* scale() with the restriction check left out
scale_unchecked(proxy, scalar) ==
    Forward(<<"get", "scale">>, V_scale(proxy.get, scalar))

\* scale() forwarding a scalar that is off by one
scale_plus(proxy, scalar) ==
    IF proxy.isRestricted THEN Throw(proxy)
    ELSE Forward(<<"isRestricted", "get", "scale">>, V_scale(proxy.get, scalar + 1))

scale(proxy, scalar) ==
    IF proxy.isRestricted THEN Throw(proxy)
    ELSE Forward(<<"isRestricted", "get", "scale">>, V_scale(proxy.get, scalar))

\* the default argument of resize() and extend(): bool preserve=true
preserveDefault == TRUE

\* ---- global functions: each returns what the member returns
\* begin( proxy ) reaching the vector without the member's check
free_begin_bypass(proxy) ==
    Forward(<<"get", "begin">>, V_begin(proxy.get))

free_begin(proxy)    == begin(proxy)
free_cbegin(proxy)   == cbegin(proxy)
free_end(proxy)      == end(proxy)
free_cend(proxy)     == cend(proxy)
free_size(proxy)     == size(proxy)
free_capacity(proxy) == capacity(proxy)
free_nonZeros(proxy) == nonZeros(proxy)
free_reset(proxy)    == reset(proxy)
free_clear(proxy)    == clear(proxy)

\* the members of DenseVectorProxy, and those a global function is declared for
ProxyOps == { "operator[]", "data", "begin", "cbegin", "end", "cend", "size",
              "capacity", "nonZeros", "reset", "clear", "resize", "extend",
              "reserve", "scale" }

FreeFunctions == { "begin", "cbegin", "end", "cend", "size", "capacity",
                   "nonZeros", "reset", "clear" }

\* the operations with the isRestricted() check in front
Gated == { "operator[]", "operator[]=", "data", "begin", "end", "resize",
           "extend", "reserve", "scale" }

\* ------------------------------------------------------------------ actions
\* the proxy with isRestricted() answered once, at the first call, and the
\* answer kept
This_cached ==
    Proxy(rep, IF last.op = "none" THEN restricted ELSE last.restr)

\* the proxy a call is made on: a handle onto rep whose isRestricted() is
\* evaluated when the member asks for it
This == Proxy(rep, restricted)

NoCall == [op |-> "none", via |-> "none", n |-> 0, preserve |-> FALSE, s |-> 0,
           restr |-> FALSE, outcome |-> Ok, result |-> NoResult, calls |-> <<>>]

\* how a gated call's outcome relates to the same call made just before it
Flip(before, op, via, n, preserve, s, outcome) ==
    IF /\ op \in Gated
       /\ before.op = op /\ before.via = via /\ before.n = n
       /\ before.preserve = preserve /\ before.s = s
    THEN IF before.outcome = AccessRestricted /\ outcome # AccessRestricted
         THEN "lifted"
         ELSE IF before.outcome # AccessRestricted /\ outcome = AccessRestricted
         THEN "denied"
         ELSE "same"
    ELSE "none"

\* one call op(n, preserve, s), as a member or a free function, ending in one
\* of the ways outs
Invoke(op, via, n, preserve, s, outs) ==
    \E o \in outs :
        /\ rep' = o.rep
        /\ last' = [op |-> op, via |-> via, n |-> n, preserve |-> preserve, s |-> s,
                    restr |-> restricted, outcome |-> o.outcome,
                    result |-> o.result, calls |-> o.calls]
        /\ flip' = IF flip = "off" THEN "off"
                    ELSE Flip(last, op, via, n, preserve, s, o.outcome)
        /\ UNCHANGED restricted

\* proxy[index], the reference is only taken
Subscript ==
    \E index \in Sizes :
        Invoke("operator[]", "member", index, FALSE, 0, subscript(This, index))

\* proxy[index] = x: the reference operator[] returns is assigned through
Assign ==
    \E index \in Sizes, x \in Values :
        Invoke("operator[]=", "member", index, FALSE, x,
               UNION { IF o.outcome = Ok
                       THEN { [o EXCEPT !.rep = w] : w \in V_store(o.rep, o.result.val, x) }
                       ELSE { o }
                       : o \in subscript(This, index) })

Data     == Invoke("data", "member", 0, FALSE, 0, data(This))
Begin    == Invoke("begin", "member", 0, FALSE, 0, begin(This))
Cbegin   == Invoke("cbegin", "member", 0, FALSE, 0, cbegin(This))
End      == Invoke("end", "member", 0, FALSE, 0, end(This))
Cend     == Invoke("cend", "member", 0, FALSE, 0, cend(This))
Size     == Invoke("size", "member", 0, FALSE, 0, size(This))
Capacity == Invoke("capacity", "member", 0, FALSE, 0, capacity(This))
NonZeros == Invoke("nonZeros", "member", 0, FALSE, 0, nonZeros(This))
Reset    == Invoke("reset", "member", 0, FALSE, 0, reset(This))
Clear    == Invoke("clear", "member", 0, FALSE, 0, clear(This))

Resize ==
    \E n \in Sizes, preserve \in BOOLEAN :
        Invoke("resize", "member", n, preserve, 0, resize(This, n, preserve))

\* resize( n ), the preserve argument left out
ResizeDefault ==
    \E n \in Sizes :
        Invoke("resize", "member", n, preserveDefault, 1,
               resize(This, n, preserveDefault))

Extend ==
    \E n \in Sizes, preserve \in BOOLEAN :
        /\ Len(rep.elems) + n <= MaxSize
        /\ Invoke("extend", "member", n, preserve, 0, extend(This, n, preserve))

\* extend( n ), the preserve argument left out
ExtendDefault ==
    \E n \in Sizes :
        /\ Len(rep.elems) + n <= MaxSize
        /\ Invoke("extend", "member", n, preserveDefault, 1,
                  extend(This, n, preserveDefault))

Reserve ==
    \E n \in 0 .. MaxCap :
        Invoke("reserve", "member", n, FALSE, 0, reserve(This, n))

\* scale( scalar ), the products kept within 0 .. limit
ScaleWithin(limit) ==
    \E scalar \in Scalars :
        /\ \A i \in 1 .. Len(rep.elems) : Times(rep.elems[i], scalar) <= limit
        /\ Invoke("scale", "member", 0, FALSE, scalar, scale(This, scalar))

Scale == ScaleWithin(MaxVal)

FreeBegin    == Invoke("begin", "free", 0, FALSE, 0, free_begin(This))
FreeCbegin   == Invoke("cbegin", "free", 0, FALSE, 0, free_cbegin(This))
FreeEnd      == Invoke("end", "free", 0, FALSE, 0, free_end(This))
FreeCend     == Invoke("cend", "free", 0, FALSE, 0, free_cend(This))
FreeSize     == Invoke("size", "free", 0, FALSE, 0, free_size(This))
FreeCapacity == Invoke("capacity", "free", 0, FALSE, 0, free_capacity(This))
FreeNonZeros == Invoke("nonZeros", "free", 0, FALSE, 0, free_nonZeros(This))
FreeReset    == Invoke("reset", "free", 0, FALSE, 0, free_reset(This))
FreeClear    == Invoke("clear", "free", 0, FALSE, 0, free_clear(This))

\* op( proxy, ... ) for a member this header declares no global function for:
\* the call finds no function and nothing is called
FreeUndeclared ==
    \E op \in ProxyOps \ FreeFunctions :
        Invoke(op, "free", 0, FALSE, 0,
               { [rep |-> rep, outcome |-> NoFunction, result |-> NoResult,
                  calls |-> <<>>] })

\* the concrete proxy's restriction state changes between two calls
SetRestricted ==
    /\ restricted' = ~restricted
    /\ UNCHANGED <<rep, last, flip>>

Init ==
    /\ rep \in VectorsOver(Elems)
    /\ restricted \in BOOLEAN
    /\ last = NoCall
    /\ flip = "off"

Next ==
    \/ Subscript \/ Assign \/ Data \/ Begin \/ Cbegin \/ End \/ Cend
    \/ Size \/ Capacity \/ NonZeros \/ Reset \/ Clear
    \/ Resize \/ ResizeDefault \/ Extend \/ ExtendDefault \/ Reserve \/ Scale
    \/ FreeBegin \/ FreeCbegin \/ FreeEnd \/ FreeCend \/ FreeSize
    \/ FreeCapacity \/ FreeNonZeros \/ FreeReset \/ FreeClear \/ FreeUndeclared
    \/ SetRestricted

Spec == Init /\ [][Next]_vars

\* scale() alone, over the wider element values 0 .. ScaleMaxVal
InitScale ==
    /\ rep \in VectorsOver(0 .. ScaleMaxVal)
    /\ restricted \in BOOLEAN
    /\ last = NoCall
    /\ flip = "off"

ScaleWide == ScaleWithin(ScaleMaxVal)

NextScale == ScaleWide \/ SetRestricted

SpecScale == InitScale /\ [][NextScale]_vars

\* the gated calls alone, each compared with the same call made before it
InitToggle ==
    /\ rep \in VectorsOver(Elems)
    /\ restricted \in BOOLEAN
    /\ last = NoCall
    /\ flip = "none"

NextToggle ==
    \/ Subscript \/ Assign \/ Data \/ Begin \/ End
    \/ Resize \/ Extend \/ Reserve \/ Scale
    \/ SetRestricted

SpecToggle == InitToggle /\ [][NextToggle]_vars

TypeOK ==
    /\ Len(rep.elems) \in Sizes
    /\ \A i \in 1 .. Len(rep.elems) : rep.elems[i] \in Elems \cup (0 .. ScaleMaxVal)
    /\ rep.cap \in Len(rep.elems) .. MaxCap
    /\ restricted \in BOOLEAN
    /\ last.op \in ProxyOps \cup {"operator[]=", "none"}

\* ------------------------------------------------------------------ claims
\* a step that is a call through the proxy (SetRestricted alone changes
\* restricted)
CallStep == restricted' = restricted

\* a call that found a function to run
Ran(l) == l.op # "none" /\ l.outcome # NoFunction

SizeOf(v) == Len(v.elems)

\* C1: on a restricted proxy each gated member operation (operator[], data,
\* begin, end, resize, extend, reserve, scale) fails with the access-restricted
\* error and leaves the vector's size, capacity, non-zero count and elements
\* as they were, whatever the arguments.
C1_RestrictedGatedFails ==
    [][ (CallStep /\ restricted /\ last'.via = "member" /\ last'.op \in Gated)
        => /\ last'.outcome = AccessRestricted
           /\ SizeOf(rep') = SizeOf(rep)
           /\ rep'.cap = rep.cap
           /\ rep'.elems = rep.elems
           /\ V_nonZeros(rep') = V_nonZeros(rep) ]_vars

\* a resize that would have changed the size was denied
C1_Witness ==
    /\ last.op = "resize" /\ last.via = "member" /\ last.restr
    /\ last.outcome = AccessRestricted
    /\ last.n # SizeOf(rep)
    /\ \E i \in 1 .. SizeOf(rep) : rep.elems[i] \in Values \ {Default}

\* C2: in a gated operation the restriction check comes first: on a restricted
\* proxy the call ends in the access-restricted error with isRestricted() the
\* only call made, so neither get() nor the vector is reached and no reference,
\* pointer or iterator is handed out.
C2_CheckBeforeAccess ==
    /\ (Ran(last) /\ last.op \in Gated) => Head(last.calls) = "isRestricted"
    /\ (Ran(last) /\ last.op \in Gated /\ last.restr)
         => /\ last.outcome = AccessRestricted
            /\ last.calls = <<"isRestricted">>
            /\ last.result = NoResult

\* data() on a restricted proxy ended in the error
C2_Witness ==
    /\ last.op = "data" /\ last.via = "member" /\ last.restr
    /\ last.outcome = AccessRestricted
    /\ SizeOf(rep) > 0

\* C3 as stated: while the proxy is restricted no operation invoked through
\* it, member or free function, changes the represented vector.
C3_NoChangeWhileRestricted ==
    [][ (CallStep /\ restricted) => rep' = rep ]_vars

\* C3, amended: while the proxy is restricted no operation invoked through it
\* other than reset() and clear(), member or free function, changes the
\* represented vector; reset() and clear() are forwarded without the check.
C3_NoChangeExceptResetClear ==
    [][ (CallStep /\ restricted /\ last'.op \notin {"reset", "clear"})
        => rep' = rep ]_vars

\* an assignment proxy[i] = x that would have changed element i was denied
C3_Witness ==
    /\ last.op = "operator[]=" /\ last.restr
    /\ last.outcome = AccessRestricted
    /\ last.n < SizeOf(rep)
    /\ last.s # rep.elems[last.n + 1]

\* the member a free function is named after, and the free function itself
MemberOf(op, proxy) ==
    CASE op = "begin"    -> begin(proxy)
      [] op = "cbegin"   -> cbegin(proxy)
      [] op = "end"      -> end(proxy)
      [] op = "cend"     -> cend(proxy)
      [] op = "size"     -> size(proxy)
      [] op = "capacity" -> capacity(proxy)
      [] op = "nonZeros" -> nonZeros(proxy)
      [] op = "reset"    -> reset(proxy)
      [] op = "clear"    -> clear(proxy)

FreeOf(op, proxy) ==
    CASE op = "begin"    -> free_begin(proxy)
      [] op = "cbegin"   -> free_cbegin(proxy)
      [] op = "end"      -> free_end(proxy)
      [] op = "cend"     -> free_cend(proxy)
      [] op = "size"     -> free_size(proxy)
      [] op = "capacity" -> free_capacity(proxy)
      [] op = "nonZeros" -> free_nonZeros(proxy)
      [] op = "reset"    -> free_reset(proxy)
      [] op = "clear"    -> free_clear(proxy)

\* C4 as stated: every proxy operation has a same-named free function, and
\* the free function behaves as the member does.
C4_EveryOpHasFreeFunction ==
    last.via = "free"
      => /\ last.outcome # NoFunction
         /\ last.op \in ProxyOps

\* C4, amended: begin, cbegin, end, cend, size, capacity, nonZeros, reset and
\* clear each have a same-named free function, and on the same proxy, restricted
\* or not, the free function ends in exactly the ways the member does: same
\* result, same effect on the vector, same access-restricted error, same calls
\* (one restriction check, made by the member). operator[], data, resize,
\* extend, reserve and scale have no free function in this header.
C4_FreeEqualsMember ==
    /\ \A op \in FreeFunctions : FreeOf(op, This) = MemberOf(op, This)
    /\ last.via = "free" => (last.outcome # NoFunction <=> last.op \in FreeFunctions)
    /\ (last.via = "free" /\ last.op \in Gated /\ Ran(last))
         => (last.outcome = AccessRestricted <=> last.restr)

\* the free begin() was denied on a restricted proxy
C4_Witness ==
    /\ last.via = "free" /\ last.op = "begin" /\ last.restr
    /\ last.outcome = AccessRestricted
    /\ SizeOf(rep) > 0

\* the same query made directly on the vector
DirectOf(op, v) ==
    CASE op = "size"     -> V_size(v)
      [] op = "capacity" -> V_capacity(v)
      [] op = "nonZeros" -> V_nonZeros(v)
      [] op = "cbegin"   -> V_cbegin(v)
      [] op = "cend"     -> V_cend(v)

Queries == { "size", "capacity", "nonZeros", "cbegin", "cend" }

\* C5: restricted or not, size(), capacity(), nonZeros(), cbegin() and cend()
\* never raise the access-restricted error and return what the same operation
\* returns when called directly on the vector in its current state.
C5_QueriesAnswerAsVector ==
    (Ran(last) /\ last.op \in Queries)
      => /\ last.outcome = Ok
         /\ last.result \in { o.result : o \in DirectOf(last.op, rep) }
         /\ last.op = "size" => last.result = Val("size_t", Len(rep.elems))
         /\ last.op = "capacity" => last.result = Val("size_t", rep.cap)
         /\ last.op = "cbegin" => last.result = Val("ConstIterator", 0)
         /\ last.op = "cend" => last.result = Val("ConstIterator", Len(rep.elems))

\* size() answered on a restricted proxy onto a vector with spare capacity
C5_Witness ==
    /\ last.op = "size" /\ last.via = "member" /\ last.restr
    /\ last.outcome = Ok
    /\ last.result.val = SizeOf(rep)
    /\ 0 < SizeOf(rep) /\ SizeOf(rep) < rep.cap

\* C6: reset() and clear(), members and free functions, are not restriction
\* checked: on a restricted proxy too they complete and reset sets every
\* element to the default value, clear empties the vector, while resize,
\* extend and scale on the same proxy fail.
C6_ResetClearUnchecked ==
    [][ CallStep =>
        /\ (Ran(last') /\ last'.op = "reset")
             => /\ last'.outcome = Ok
                /\ SizeOf(rep') = SizeOf(rep)
                /\ \A i \in 1 .. SizeOf(rep') : rep'.elems[i] = Default
        /\ (Ran(last') /\ last'.op = "clear")
             => /\ last'.outcome = Ok
                /\ SizeOf(rep') = 0
        /\ (restricted /\ Ran(last') /\ last'.op \in {"resize", "extend", "scale"})
             => last'.outcome = AccessRestricted ]_vars

\* the free reset() went through on a restricted proxy onto a full vector
C6_Witness ==
    /\ last.op = "reset" /\ last.via = "free" /\ last.restr
    /\ last.outcome = Ok
    /\ SizeOf(rep) = MaxSize
    /\ \A i \in 1 .. SizeOf(rep) : rep.elems[i] = Default

\* C7: the restriction predicate is evaluated anew on every gated call: each
\* gated call fails exactly when isRestricted() is true at the moment of that
\* call, so a call denied while restricted succeeds when repeated after the
\* restriction lifts, and a call that went through is denied when repeated
\* once the proxy is restricted.
C7_RestrictionReevaluated ==
    [][ (CallStep /\ last'.op \in Gated)
        => /\ last'.outcome = AccessRestricted <=> restricted
           /\ (flip' = "lifted" /\ last.op # "none")
                => (last.outcome = AccessRestricted /\ ~restricted)
           /\ (flip' = "denied" /\ last.op # "none")
                => (last.outcome # AccessRestricted /\ restricted) ]_vars

\* reserve( n ) was denied, the restriction lifted, and the same reserve( n )
\* went through and raised the capacity
C7_Witness ==
    /\ flip = "lifted"
    /\ last.op = "reserve" /\ last.outcome = Ok
    /\ last.n = rep.cap /\ SizeOf(rep) < rep.cap

\* C8: on an unrestricted proxy, proxy[i] = v for a valid index i leaves v at
\* index i of the vector, and the other elements and the size as they were.
C8_WriteThenRead ==
    [][ (CallStep /\ ~restricted /\ last'.op = "operator[]=" /\ last'.n < SizeOf(rep))
        => /\ last'.outcome = Ok
           /\ last'.result = Val("Reference", last'.n)
           /\ SizeOf(rep') = SizeOf(rep)
           /\ rep'.elems[last'.n + 1] = last'.s
           /\ \A j \in 1 .. SizeOf(rep) : j # last'.n + 1 => rep'.elems[j] = rep.elems[j] ]_vars

\* the last element of a full vector was written with a non-default value
C8_Witness ==
    /\ last.op = "operator[]=" /\ ~last.restr /\ last.outcome = Ok
    /\ SizeOf(rep) = MaxSize /\ last.n = MaxSize - 1
    /\ last.s # Default
    /\ rep.elems[last.n + 1] = last.s
    /\ rep.elems[1] = Default

\* C9: on an unrestricted proxy a resize( n, true ) that returns, the preserve
\* argument given or left to its default, is followed by size() == n, and every
\* element at an index valid before and after keeps its value; the elements
\* from the old size on are present, their values unspecified.
C9_ResizePreserves ==
    [][ (CallStep /\ ~restricted /\ last'.op = "resize" /\ last'.via = "member")
        => /\ last'.s = 1 => last'.preserve
           /\ last'.outcome \in {Ok, BadAlloc}
           /\ last'.outcome = BadAlloc => last'.n > rep.cap
           /\ (last'.preserve /\ last'.outcome = Ok)
                => /\ \A o \in size(Proxy(rep', restricted')) :
                          o.result = Val("size_t", last'.n)
                   /\ SizeOf(rep') = last'.n
                   /\ DOMAIN rep'.elems = 1 .. last'.n
                   /\ \A i \in 1 .. Min(last'.n, SizeOf(rep)) :
                          rep'.elems[i] = rep.elems[i] ]_vars

\* resize( MaxSize ), preserve left out, returned: the vector has MaxSize
\* elements, the first with a definite value, the last one there, not initialized
C9_Witness ==
    /\ last.op = "resize" /\ ~last.restr /\ last.outcome = Ok
    /\ last.s = 1 /\ last.preserve
    /\ last.n = MaxSize /\ SizeOf(rep) = MaxSize
    /\ rep.elems[1] \in Values \ {Default}
    /\ rep.elems[MaxSize] = Indeterminate

\* C10: on an unrestricted proxy scale( s ) replaces every element x by x*s and
\* keeps the size (scale( 2 ) on [1,2,3] gives [2,4,6]); on a restricted proxy
\* scale( s ) fails and the elements stay ([1,2,3] stays [1,2,3]).
C10_Scale ==
    [][ (CallStep /\ last'.op = "scale" /\ last'.via = "member")
        => /\ ~restricted
                => /\ last'.outcome = Ok
                   /\ SizeOf(rep') = SizeOf(rep)
                   /\ \A i \in 1 .. SizeOf(rep) :
                          rep'.elems[i] = rep.elems[i] * last'.s
                   /\ (rep.elems = <<1, 2, 3>> /\ last'.s = 2)
                        => rep'.elems = <<2, 4, 6>>
           /\ restricted
                => /\ last'.outcome = AccessRestricted
                   /\ rep'.elems = rep.elems ]_vars

\* scale( 2 ) left [2,4,6]
C10_Witness ==
    /\ last.op = "scale" /\ ~last.restr /\ last.outcome = Ok
    /\ last.s = 2
    /\ rep.elems = <<2, 4, 6>>

\* the operation a gated member forwards to, called directly on the vector
\* with the arguments of the call l
ForwardedOf(l, v) ==
    CASE l.op = "operator[]" -> V_subscript(v, l.n)
      [] l.op = "resize"     -> V_resize(v, l.n, l.preserve)
      [] l.op = "extend"     -> V_extend(v, l.n, l.preserve)
      [] l.op = "reserve"    -> V_reserve(v, l.n)

\* the failures the represented vector raises itself
Delegated == { OutOfRange, BadAlloc }

\* C11: on an unrestricted proxy a failure the vector raises inside a
\* forwarded operation (out of range in operator[], allocation failure in
\* resize, extend, reserve) reaches the caller as that same failure, never as
\* the access-restricted error and never swallowed, and the vector is left as
\* its own operation left it.
C11_DelegatedFailurePassesThrough ==
    [][ (CallStep /\ ~restricted /\ last'.via = "member"
           /\ last'.op \in {"operator[]", "resize", "extend", "reserve"})
        => /\ last'.outcome # AccessRestricted
           /\ \E o \in ForwardedOf(last', rep) :
                 /\ last'.outcome = o.fail
                 /\ last'.result = o.result
                 /\ rep' = o.rep
           /\ (\A o \in ForwardedOf(last', rep) : o.fail = Ok) => last'.outcome = Ok
           /\ last'.outcome \in Delegated => rep' = rep ]_vars

\* reserve( n ) beyond the capacity ended in the vector's allocation failure
C11_Witness ==
    /\ last.op = "reserve" /\ last.via = "member" /\ ~last.restr
    /\ last.outcome = BadAlloc
    /\ last.n > rep.cap
    /\ SizeOf(rep) > 0

\* C12: after any sequence of proxy operations, gated or not, succeeding or
\* failing, on a restricted or an unrestricted proxy, the size() the proxy
\* reports is at most the capacity() it reports.
C12_SizeWithinCapacity ==
    /\ \A sz \in size(This) \cup free_size(This),
          cp \in capacity(This) \cup free_capacity(This) :
          /\ sz.outcome = Ok /\ cp.outcome = Ok
          /\ sz.result.val <= cp.result.val
    /\ (Ran(last) /\ last.op = "size") => last.result.val <= rep.cap
    /\ (Ran(last) /\ last.op = "capacity") => SizeOf(rep) <= last.result.val

\* capacity() answered on a vector filled up to its capacity
C12_Witness ==
    /\ last.op = "capacity" /\ last.outcome = Ok
    /\ last.result.val = SizeOf(rep)
    /\ SizeOf(rep) = MaxSize
    /\ \E i \in 1 .. SizeOf(rep) : rep.elems[i] = Default

\* C13: after any sequence of proxy operations the number of non-zero
\* elements nonZeros() reports, member or free function, is at most size().
C13_NonZerosWithinSize ==
    /\ \A nz \in nonZeros(This) \cup free_nonZeros(This),
          sz \in size(This) \cup free_size(This) :
          /\ nz.outcome = Ok
          /\ nz.result.val <= sz.result.val
    /\ (Ran(last) /\ last.op = "nonZeros") => last.result.val <= SizeOf(rep)

\* the free nonZeros() counted every element of a vector with spare capacity
C13_Witness ==
    /\ last.op = "nonZeros" /\ last.via = "free" /\ last.outcome = Ok
    /\ last.result.val = SizeOf(rep)
    /\ 0 < SizeOf(rep) /\ SizeOf(rep) < rep.cap
    /\ \A i \in 1 .. SizeOf(rep) : rep.elems[i] \in Values \ {Default}

\* C14: on an unrestricted proxy an extend( n, true ) that returns adds n
\* elements: size() afterwards is size() before plus n (n counts additional
\* elements, it is not the new size), and every element there before keeps its
\* value.
C14_ExtendAdds ==
    [][ (CallStep /\ ~restricted /\ last'.op = "extend" /\ last'.via = "member")
        => /\ last'.s = 1 => last'.preserve
           /\ last'.outcome \in {Ok, BadAlloc}
           /\ last'.outcome = BadAlloc => SizeOf(rep) + last'.n > rep.cap
           /\ (last'.preserve /\ last'.outcome = Ok)
                => /\ \A o \in size(Proxy(rep', restricted')) :
                          o.result = Val("size_t", SizeOf(rep) + last'.n)
                   /\ SizeOf(rep') = SizeOf(rep) + last'.n
                   /\ \A i \in 1 .. SizeOf(rep) : rep'.elems[i] = rep.elems[i] ]_vars

\* extend( 1, true ) returned and left more than one element, the first with
\* a definite value, the last one not initialized
C14_Witness ==
    /\ last.op = "extend" /\ ~last.restr /\ last.outcome = Ok
    /\ last.preserve /\ last.s = 0
    /\ last.n = 1 /\ SizeOf(rep) = MaxSize
    /\ rep.elems[1] \in Values \ {Default}
    /\ rep.elems[MaxSize] = Indeterminate

\* C15: on an unrestricted proxy a reserve( n ) that returns leaves
\* capacity() >= n; reserve never lowers the capacity, and size() and every
\* element are as before the call.
C15_ReserveKeepsContents ==
    [][ (CallStep /\ ~restricted /\ last'.op = "reserve" /\ last'.via = "member")
        => /\ last'.outcome \in {Ok, BadAlloc}
           /\ last'.outcome = Ok
                => \A o \in capacity(Proxy(rep', restricted')) :
                       o.result.val >= last'.n
           /\ rep'.cap >= rep.cap
           /\ SizeOf(rep') = SizeOf(rep)
           /\ rep'.elems = rep.elems ]_vars

\* reserve( n ) returned on a vector that holds fewer than n elements, one of
\* them with a definite value
C15_Witness ==
    /\ last.op = "reserve" /\ ~last.restr /\ last.outcome = Ok
    /\ flip = "off"
    /\ last.n = rep.cap /\ 0 < SizeOf(rep) /\ SizeOf(rep) < last.n
    /\ rep.elems[1] \in Values \ {Default}

\* C16: size(), capacity(), nonZeros(), cbegin() and cend(), members and free
\* functions, are pure reads: restricted or not they leave the vector's size,
\* capacity, non-zero count and elements as they were, and the value of the
\* restriction predicate too.
C16_QueriesArePure ==
    [][ (last' # last /\ Ran(last') /\ last'.op \in Queries)
        => /\ SizeOf(rep') = SizeOf(rep)
           /\ rep'.cap = rep.cap
           /\ rep'.elems = rep.elems
           /\ V_nonZeros(rep') = V_nonZeros(rep)
           /\ restricted' = restricted ]_vars

\* the free cend() answered on a restricted proxy onto a vector with a
\* non-default element and spare capacity
C16_Witness ==
    /\ last.op = "cend" /\ last.via = "free" /\ last.restr
    /\ last.outcome = Ok
    /\ last.result.val = SizeOf(rep)
    /\ 0 < SizeOf(rep) /\ SizeOf(rep) < rep.cap
    /\ rep.elems[1] \in Values \ {Default}

====
